---- MODULE Spec2Model ----
(***************************************************************************)
(* Adaptive Chess: the move-selection engines (AdaptiveChessAI,            *)
(* HyperbolicChessAI), the evaluation library and the two game             *)
(* orchestrators (HumanVsAI, AIvsAI).                                      *)
(*                                                                         *)
(* The rules engine (chess.js) is an external collaborator.  It is         *)
(* modelled as chess restricted to the sub-board Files x Ranks of the 8x8  *)
(* board: the squares keep their real coordinates, pieces move as in       *)
(* chess, and a piece cannot leave the sub-board.  Castling and en passant *)
(* do not arise in the positions used.                                     *)
(*                                                                         *)
(* Numbers: board scores are kept in hundredths (integers); the skill      *)
(* estimate, the quality score and the time taken are exact rationals      *)
(* <<numerator, denominator>>.                                             *)
(***************************************************************************)
EXTENDS Integers, Sequences, FiniteSets, TLC

(***************************************************************************)
(* Exact rationals                                                         *)
(***************************************************************************)
RECURSIVE Gcd(_, _)
Gcd(a, b) == IF b = 0 THEN a ELSE Gcd(b, a % b)

Abs(x) == IF x < 0 THEN -x ELSE x

Rat(n, d) == LET g == Gcd(Abs(n), d) IN <<n \div g, d \div g>>
RAdd(p, q) == Rat(p[1] * q[2] + q[1] * p[2], p[2] * q[2])
RSub(p, q) == Rat(p[1] * q[2] - q[1] * p[2], p[2] * q[2])
RMul(p, q) == Rat(p[1] * q[1], p[2] * q[2])
RDiv(p, q) == Rat(p[1] * q[2], p[2] * q[1])
RLt(p, q) == p[1] * q[2] < q[1] * p[2]
RLe(p, q) == p[1] * q[2] <= q[1] * p[2]
RMin(p, q) == IF RLe(p, q) THEN p ELSE q
RMax(p, q) == IF RLe(p, q) THEN q ELSE p
RInt(n) == <<n, 1>>

(***************************************************************************)
(* The rules engine: chess on the sub-board                                *)
(***************************************************************************)
Files == {4, 5}
Ranks == {5, 6, 7, 8}
Sq(f, r) == f * 10 + r
FileOf(sq) == sq \div 10
RankOf(sq) == sq % 10
Squares == {Sq(f, r) : f \in Files, r \in Ranks}

NoPiece == [color |-> "-", type |-> "-"]
Pc(c, t) == [color |-> c, type |-> t]
Other(c) == IF c = "w" THEN "b" ELSE "w"

\* board()[r][c] scan order: rank 8 first, files a..h within a rank
ScanIdx(sq) == (8 - RankOf(sq)) * 8 + (FileOf(sq) - 1)

RECURSIVE SortedSeq(_)
SortedSeq(S) ==
  IF S = {} THEN <<>>
  ELSE LET m == CHOOSE x \in S : \A y \in S : ScanIdx(x) <= ScanIdx(y)
       IN <<m>> \o SortedSeq(S \ {m})

SqList == SortedSeq(Squares)

Sgn(x) == IF x > 0 THEN 1 ELSE IF x < 0 THEN -1 ELSE 0

\* the squares strictly between two squares on a common line
Between(a, b) ==
  LET df == FileOf(b) - FileOf(a)
      dr == RankOf(b) - RankOf(a)
      n == IF Abs(df) > Abs(dr) THEN Abs(df) ELSE Abs(dr)
  IN {Sq(FileOf(a) + k * Sgn(df), RankOf(a) + k * Sgn(dr)) : k \in 1..(n - 1)}

\* piece p standing on a attacks square b (geometry and blockers only)
Attacks(board, a, b) ==
  LET p == board[a]
      df == FileOf(b) - FileOf(a)
      dr == RankOf(b) - RankOf(a)
      clear == \A s \in Between(a, b) : board[s] = NoPiece
  IN /\ a # b
     /\ CASE p.type = "k" -> Abs(df) <= 1 /\ Abs(dr) <= 1
          [] p.type = "n" -> {Abs(df), Abs(dr)} = {1, 2}
          [] p.type = "r" -> (df = 0 \/ dr = 0) /\ clear
          [] p.type = "b" -> Abs(df) = Abs(dr) /\ clear
          [] p.type = "q" -> (df = 0 \/ dr = 0 \/ Abs(df) = Abs(dr)) /\ clear
          [] p.type = "p" -> Abs(df) = 1 /\ dr = (IF p.color = "w" THEN 1 ELSE -1)
          [] OTHER -> FALSE

IsAttacked(board, sq, by) ==
  \E a \in Squares : board[a].color = by /\ Attacks(board, a, sq)

KingInCheck(board, c) ==
  \E k \in Squares : board[k] = Pc(c, "k") /\ IsAttacked(board, k, Other(c))

\* pseudo-legal: the piece on a may go to b
CanGo(board, a, b) ==
  LET p == board[a]
      dr == RankOf(b) - RankOf(a)
      fwd == IF p.color = "w" THEN 1 ELSE -1
      home == IF p.color = "w" THEN 2 ELSE 7
  IN /\ board[b].color # p.color
     /\ IF p.type = "p"
        THEN \/ board[b] # NoPiece /\ Attacks(board, a, b)
             \/ /\ board[b] = NoPiece
                /\ FileOf(a) = FileOf(b)
                /\ \/ dr = fwd
                   \/ /\ dr = 2 * fwd
                      /\ RankOf(a) = home
                      /\ board[Sq(FileOf(a), RankOf(a) + fwd)] = NoPiece
        ELSE Attacks(board, a, b)

PromoRank(c) == IF c = "w" THEN 8 ELSE 1

ApplyRaw(board, a, b, promo) ==
  [board EXCEPT ![a] = NoPiece,
                ![b] = IF promo = "-" THEN board[a] ELSE Pc(board[a].color, promo)]

\* a Chess object: the placement and the side to move
Chess(board, turn) == [board |-> board, turn |-> turn]
fen(g) == [placement |-> g.board, active |-> g.turn]
NewChess(f) == [board |-> f.placement, turn |-> f.active]

HasLegalMove(board, c) ==
  \E a \in Squares : board[a].color = c /\
    \E b \in Squares : CanGo(board, a, b) /\
      ~KingInCheck(ApplyRaw(board, a, b, "-"), c)

\* SAN as a structured name: piece, origin, target, "x", promotion, "+"/"#"
San(board, a, b, promo) ==
  LET c == board[a].color
      nb == ApplyRaw(board, a, b, promo)
      chk == KingInCheck(nb, Other(c))
      mate == chk /\ ~HasLegalMove(nb, Other(c))
  IN [piece |-> board[a].type, from |-> a, to |-> b,
      x |-> board[b] # NoPiece, promotion |-> promo,
      suffix |-> IF mate THEN "#" ELSE IF chk THEN "+" ELSE ""]

\* a verbose Move
MoveRec(board, a, b, promo) ==
  [color |-> board[a].color, from |-> a, to |-> b, piece |-> board[a].type,
   captured |-> board[b].type, promotion |-> promo,
   san |-> San(board, a, b, promo)]

PromoSeq == <<"q", "r", "b", "n">>

MovesFromTo(board, a, b) ==
  IF ~(CanGo(board, a, b) /\ ~KingInCheck(ApplyRaw(board, a, b, "-"), board[a].color))
  THEN <<>>
  ELSE IF board[a].type = "p" /\ RankOf(b) = PromoRank(board[a].color)
       THEN [i \in 1..4 |-> MoveRec(board, a, b, PromoSeq[i])]
       ELSE <<MoveRec(board, a, b, "-")>>

RECURSIVE MovesFromAcc(_, _, _)
MovesFromAcc(board, a, i) ==
  IF i > Len(SqList) THEN <<>>
  ELSE MovesFromTo(board, a, SqList[i]) \o MovesFromAcc(board, a, i + 1)

RECURSIVE MovesAcc(_, _)
MovesAcc(g, i) ==
  IF i > Len(SqList) THEN <<>>
  ELSE (IF g.board[SqList[i]].color # g.turn THEN <<>>
        ELSE MovesFromAcc(g.board, SqList[i], 1)) \o MovesAcc(g, i + 1)

\* K v K, K+N v K, K+B v K (bishops all on one colour)
InsufficientMaterial(board) ==
  LET others == {s \in Squares : board[s] # NoPiece /\ board[s].type # "k"}
  IN \/ others = {}
     \/ Cardinality(others) = 1 /\ \A s \in others : board[s].type \in {"n", "b"}
     \/ /\ \A s \in others : board[s].type = "b"
        /\ \A s, t \in others : (FileOf(s) + RankOf(s)) % 2 = (FileOf(t) + RankOf(t)) % 2

\* what the rules engine answers about one position
Answers(g) ==
  [moves |-> MovesAcc(g, 1),
   inCheck |-> KingInCheck(g.board, g.turn),
   insufficient |-> InsufficientMaterial(g.board)]

EmptyBoard == [s \in Squares |-> NoPiece]
Place(board, sq, c, t) == [board EXCEPT ![sq] = Pc(c, t)]

\* new Chess(): the starting position of the sub-board game
StartBoard ==
  Place(Place(Place(Place(EmptyBoard, 45, "w", "k"), 55, "w", "n"),
        48, "b", "k"), 58, "b", "n")
StartChess == Chess(StartBoard, "w")

\* further positions the engines are exercised on
QueenBoard == Place(Place(Place(EmptyBoard, 46, "w", "k"), 55, "w", "q"), 48, "b", "k")
PawnBoard ==
  Place(Place(Place(Place(EmptyBoard, 45, "w", "k"), 57, "w", "p"),
        48, "b", "n"), 47, "b", "k")
PromoBoard ==
  Place(Place(Place(Place(Place(EmptyBoard, 45, "w", "k"), 57, "w", "p"),
        48, "b", "b"), 56, "b", "r"), 58, "b", "k")
\* the rules engine: its answers about every position
VARIABLE rules

\* every position the engines can come to look at from the test positions (no
\* line is followed beyond a position where the game is over), with the rules
\* engine's answers computed once
SuccessorsOf(g, ms) ==
  IF Len(ms) = 0 \/ InsufficientMaterial(g.board) THEN {}
  ELSE {Chess(ApplyRaw(g.board, ms[i].from, ms[i].to, ms[i].promotion), Other(g.turn)) :
          i \in 1..Len(ms)}
Successors(g) == SuccessorsOf(g, MovesAcc(g, 1))

RECURSIVE Reach(_, _)
Reach(frontier, seen) ==
  IF frontier = {} THEN seen
  ELSE LET next == (UNION {Successors(g) : g \in frontier}) \ seen
       IN Reach(next, seen \cup next)

\* the rules engine serving the games that start from seeds
Book(seeds) == [g \in Reach(seeds, seeds) |-> Answers(g)]
Lookup(g) == rules[g]

\* game.moves({verbose: true})
Moves(g) == Lookup(g).moves

\* game.moves({square, verbose: true})
movesOf(g, sq) == SelectSeq(Moves(g), LAMBDA m : m.from = sq)

\* game.moves(): the SAN strings
sanMoves(g) == LET ms == Moves(g) IN [i \in 1..Len(ms) |-> ms[i].san]

inCheck(g) == Lookup(g).inCheck
isCheckmate(g) == inCheck(g) /\ Len(Moves(g)) = 0
isStalemate(g) == ~inCheck(g) /\ Len(Moves(g)) = 0
isInsufficientMaterial(g) == Lookup(g).insufficient
isDraw(g) == isStalemate(g) \/ isInsufficientMaterial(g)
isGameOver(g) == isCheckmate(g) \/ isDraw(g)

InSeq(x, s) == \E i \in 1..Len(s) : s[i] = x

\* game.move(san); an illegal SAN raises and leaves the object as it is
moveLegal(g, san) == InSeq(san, sanMoves(g))
move(g, san) ==
  IF moveLegal(g, san)
  THEN Chess(ApplyRaw(g.board, san.from, san.to, san.promotion), Other(g.turn))
  ELSE g

NullSan == [piece |-> "-", from |-> 0, to |-> 0, x |-> FALSE, promotion |-> "-", suffix |-> ""]

\* moves[0] of an empty array
Undefined ==
  [color |-> "-", from |-> 0, to |-> 0, piece |-> "-", captured |-> "-",
   promotion |-> "-", san |-> NullSan]
First(ms) == IF Len(ms) = 0 THEN Undefined ELSE ms[1]

\* an includes that finds everything
includesAnything(s, x) == TRUE

\* Array.prototype.includes
includes(s, x) == \E i \in 1..Len(s) : s[i] = x

\* the move made on the caller's object, without a clone
ProbeInPlace(game, san) ==
  [clone |-> move(game, san), game |-> move(game, san),
   threw |-> ~moveLegal(game, san)]

\* const clone = new Chess(game.fen()); clone.move(san): the clone after the
\* move, the caller's object after these two statements, and whether move
\* raised
Probe(game, san) ==
  [clone |-> move(NewChess(fen(game)), san), game |-> game,
   threw |-> ~moveLegal(game, san)]

(***************************************************************************)
(* constants.ts                                                            *)
(***************************************************************************)
PIECE_VALUES(t) ==
  CASE t = "p" -> 1 [] t = "n" -> 3 [] t = "b" -> 3
    [] t = "r" -> 5 [] t = "q" -> 9 [] t = "k" -> 0 [] OTHER -> 0

CENTER_SQUARES == <<54, 44, 55, 45>>

PieceAt(g, sq) == IF sq \in Squares THEN g.board[sq] ELSE NoPiece

RECURSIVE SumSeq(_, _)
SumSeq(s, i) == IF i > Len(s) THEN 0 ELSE s[i] + SumSeq(s, i + 1)

(***************************************************************************)
(* evaluation.ts                                                           *)
(***************************************************************************)
countAttacks(g, sq) == Len(movesOf(g, sq))

\* hundredths per centre square: 25 occupied by the side to move, else 15 if
\* one of its legal moves lands there
CenterTerm(g, ms, csq) ==
  IF PieceAt(g, csq) # NoPiece /\ PieceAt(g, csq).color = g.turn THEN 25
  ELSE IF \E i \in 1..Len(ms) : ms[i].to = csq THEN 15 ELSE 0

assessCenterControl(g) ==
  LET ms == Moves(g)
      control == SumSeq([i \in 1..4 |-> CenterTerm(g, ms, CENTER_SQUARES[i])], 1)
  IN RMin(RInt(1), Rat(control, 100))

assessPieceDevelopment(g) ==
  LET own == {s \in Squares : g.board[s].color = g.turn}
      totalPieces == Cardinality(own)
      developed == Cardinality({s \in own :
                      /\ g.board[s].type # "p"
                      /\ \/ g.turn = "w" /\ RankOf(s) > 1
                         \/ g.turn = "b" /\ RankOf(s) < 8})
      d == totalPieces - 8
  IN Rat(developed, IF d > 1 THEN d ELSE 1)

calculateUndefendedPenalty(g) ==
  LET opponentMoves == Moves(g)
      own == {s \in Squares : g.board[s].color = g.turn}
      attacked == {s \in own : \E i \in 1..Len(opponentMoves) :
                     opponentMoves[i].to = s /\ opponentMoves[i].captured # "-"}
      vals == [i \in 1..Len(SqList) |->
                 IF SqList[i] \in attacked
                 THEN 5 * PIECE_VALUES(g.board[SqList[i]].type) ELSE 0]
  IN RMin(Rat(3, 10), Rat(SumSeq(vals, 1), 100))

moveHeuristic(g, m) ==
  IF m.captured # "-" THEN 10 + PIECE_VALUES(m.captured)
  ELSE IF m.promotion # "-" THEN 15
  ELSE IF m.san.suffix = "+" THEN 5
  ELSE 0

\* in hundredths: 100 per piece plus 20 per legal move
calculatePositionComplexity(g) ==
  SumSeq([i \in 1..Len(SqList) |->
            IF g.board[SqList[i]] = NoPiece THEN 0
            ELSE 100 + 20 * countAttacks(g, SqList[i])], 1)

(***************************************************************************)
(* Shuffles and sorts of a move list                                       *)
(***************************************************************************)
\* moves.sort(() => Math.random() - 0.5): some permutation of the list; the
\* outcomes considered are the list as it is, reversed, and rotated by one
RootShuffles == {"keep", "rotate"}

Shuffle(ms, kind) ==
  LET n == Len(ms)
  IN CASE kind = "reverse" -> [i \in 1..n |-> ms[n + 1 - i]]
       [] kind = "rotate" -> [i \in 1..n |-> ms[(i % n) + 1]]
       [] OTHER -> ms

Slice(ms, k) == IF Len(ms) <= k THEN ms ELSE SubSeq(ms, 1, k)

\* Array.prototype.sort is stable: insert each move after the last one whose
\* score is at least its own
RECURSIVE InsertDesc(_, _, _)
InsertDesc(sorted, m, g) ==
  IF sorted = <<>> THEN <<m>>
  ELSE IF moveHeuristic(g, Head(sorted)) >= moveHeuristic(g, m)
       THEN <<Head(sorted)>> \o InsertDesc(Tail(sorted), m, g)
       ELSE <<m>> \o sorted

RECURSIVE SortAcc(_, _, _, _)
SortAcc(ms, i, acc, g) ==
  IF i > Len(ms) THEN acc ELSE SortAcc(ms, i + 1, InsertDesc(acc, ms[i], g), g)

\* moves.sort((a, b) => moveHeuristic(game, b) - moveHeuristic(game, a))
SortByHeuristic(ms, g) == SortAcc(ms, 1, <<>>, g)

(***************************************************************************)
(* adaptiveAI.ts: AdaptiveChessAI                                          *)
(***************************************************************************)
Infinity == 1000000

NewAdaptiveChessAI ==
  [opponentSkillEstimate |-> RInt(5),
   opponentStyle |-> "unknown",
   adaptiveFactor |-> Rat(4, 5),
   history |-> <<>>]

\* the quality of the move moveSan that led to clone
QualityOf(clone, moveSan) ==
  IF isCheckmate(clone) THEN RInt(1)
  ELSE RMin(RInt(1), RMax(Rat(1, 10),
         RSub(RAdd(RAdd(IF inCheck(clone) THEN Rat(8, 10) ELSE Rat(5, 10),
                        IF moveSan.x THEN Rat(2, 10) ELSE RInt(0)),
                   RDiv(RAdd(assessCenterControl(clone),
                             assessPieceDevelopment(clone)), RInt(4))),
              calculateUndefendedPenalty(clone))))

QualityResult(pr, moveSan) ==
  IF pr.threw THEN [ret |-> RInt(0), game |-> pr.game, threw |-> TRUE]
  ELSE [ret |-> QualityOf(pr.clone, moveSan), game |-> pr.game, threw |-> FALSE]

\* [ret, game, threw]: the value returned, the caller's Chess object after the
\* call, and whether the call raised
analyzeMoveQuality(game, moveSan) ==
  IF ~includes(sanMoves(game), moveSan)
  THEN [ret |-> Rat(1, 10), game |-> game, threw |-> FALSE]
  ELSE QualityResult(Probe(game, moveSan), moveSan)

\* attackScore counts the captures among the moves of the side to move in
\* clone, defenseScore is 0.1 per other move
StyleScore(attackScore, quiet) ==
  IF attackScore = 0 /\ quiet = 0 THEN RInt(0)
  ELSE RDiv(RSub(RInt(attackScore), Rat(quiet, 10)),
            RMax(RInt(1), RAdd(RInt(attackScore), Rat(quiet, 10))))

StyleOfMoves(ms) ==
  StyleScore(Cardinality({i \in 1..Len(ms) : ms[i].captured # "-"}),
             Cardinality({i \in 1..Len(ms) : ms[i].captured = "-"}))

StyleResult(pr) ==
  IF pr.threw THEN [ret |-> RInt(0), game |-> pr.game, threw |-> TRUE]
  ELSE [ret |-> StyleOfMoves(Moves(pr.clone)), game |-> pr.game, threw |-> FALSE]

analyzeMoveStyle(game, moveSan) ==
  IF ~includes(sanMoves(game), moveSan)
  THEN [ret |-> RInt(0), game |-> game, threw |-> FALSE]
  ELSE StyleResult(Probe(game, moveSan))

\* the thresholds taken inclusively: >= 0.6 and <= -0.6
StyleOfInclusive(styleScore) ==
  IF RLe(Rat(6, 10), styleScore) THEN "aggressive"
  ELSE IF RLe(styleScore, Rat(-6, 10)) THEN "defensive"
  ELSE "balanced"

\* if (styleScore > 0.6) ... else if (styleScore < -0.6) ... else ...
StyleOf(styleScore) ==
  IF RLt(Rat(6, 10), styleScore) THEN "aggressive"
  ELSE IF RLt(styleScore, Rat(-6, 10)) THEN "defensive"
  ELSE "balanced"

\* skillAdjustment * 10 taken as it is, without the clamp
Unclamped(skillAdjustment) == RMul(skillAdjustment, RInt(10))

\* Math.min(10, Math.max(1, skillAdjustment * 10))
Target(skillAdjustment) ==
  RMin(RInt(10), RMax(RInt(1), RMul(skillAdjustment, RInt(10))))

\* the new opponentSkillEstimate
Blend(self, qualityScore, timeTaken) ==
  RAdd(RMul(RSub(RInt(1), self.adaptiveFactor), self.opponentSkillEstimate),
       RMul(self.adaptiveFactor,
            Target(RMul(qualityScore, RDiv(RInt(1), RAdd(timeTaken, Rat(1, 2)))))))

\* unshift in place of push: the entry goes in front
unshift(history, entry) == <<entry>> \o history

\* no push at all
noPush(history, entry) == history

\* this.history.push(entry)
push(history, entry) == Append(history, entry)

Assess(self, qualityScore, styleScore, est, style) ==
  [self EXCEPT
     !.opponentSkillEstimate = est,
     !.opponentStyle = style,
     !.history = push(@, [skillEstimate |-> est, style |-> style,
                          qualityScore |-> qualityScore,
                          styleScore |-> styleScore])]

updateWith(self, q, s, timeTaken) ==
  IF s.threw THEN [self |-> self, game |-> s.game, threw |-> TRUE]
  ELSE [self |-> Assess(self, q.ret, s.ret, Blend(self, q.ret, timeTaken),
                        StyleOf(s.ret)),
        game |-> s.game, threw |-> FALSE]

updateAfterQuality(self, q, moveSan, timeTaken) ==
  IF q.threw THEN [self |-> self, game |-> q.game, threw |-> TRUE]
  ELSE updateWith(self, q, analyzeMoveStyle(q.game, moveSan), timeTaken)

\* [self, game, threw]
updateOpponentAssessment(self, game, moveSan, timeTaken) ==
  updateAfterQuality(self, analyzeMoveQuality(game, moveSan), moveSan, timeTaken)

\* adjustment is Math.random() * 1.5 - 0.5
getSkillLevel(self, adjustment) ==
  LET skill == RMin(RInt(10), RMax(RInt(1), RAdd(self.opponentSkillEstimate, adjustment)))
  IN IF Len(self.history) > 10 THEN RMin(RInt(10), RAdd(skill, RInt(1))) ELSE skill

\* Math.round: the nearest integer, halves up
Round(r) == (2 * r[1] + r[2]) \div (2 * r[2])

depthTable(skill) ==
  CASE skill = 1 -> 1 [] skill = 2 -> 2 [] skill = 3 -> 3 [] skill = 4 -> 4
    [] skill = 5 -> 5 [] skill = 6 -> 6 [] skill = 7 -> 6 [] skill = 8 -> 7
    [] skill = 9 -> 8 [] skill = 10 -> 9 [] OTHER -> 4

IMin(a, b) == IF a < b THEN a ELSE b
IMax(a, b) == IF a > b THEN a ELSE b

\* the depth returned as it comes out of the jitter, without the floor
getDepthUnfloored(self, up, down) ==
  depthTable(IMin(10, IMax(1, Round(self.opponentSkillEstimate))))
    + (IF up THEN 1 ELSE 0) - (IF down THEN 1 ELSE 0)

\* the mapping the class comment documents (CHANGE LOG)
DocumentedDepth(skill) ==
  CASE skill \in {1, 2} -> 1 [] skill = 3 -> 2 [] skill = 4 -> 3 [] skill = 5 -> 4
    [] skill = 6 -> 5 [] skill = 7 -> 6 [] skill = 8 -> 7 [] skill = 9 -> 8
    [] skill = 10 -> 9

\* up, down: the outcomes of the two jitter rolls (Math.random() < 0.3)
getDepthForOpponent(self, up, down) ==
  LET skill == Round(self.opponentSkillEstimate)
      base == depthTable(IMin(10, IMax(1, skill)))
      depth == base + (IF up THEN 1 ELSE 0) - (IF down THEN 1 ELSE 0)
  IN IMax(1, depth)

\* the white pieces counted, the black ones left out
MaterialOfWhite(g) ==
  SumSeq([i \in 1..Len(SqList) |->
            IF g.board[SqList[i]].color = "w"
            THEN 100 * PIECE_VALUES(g.board[SqList[i]].type) ELSE 0], 1)

Material(g) ==
  SumSeq([i \in 1..Len(SqList) |->
            LET p == g.board[SqList[i]]
            IN IF p.color = "w" THEN 100 * PIECE_VALUES(p.type)
               ELSE IF p.color = "b" THEN -100 * PIECE_VALUES(p.type) ELSE 0], 1)

\* 0.05 per legal move of each piece of the side to move, in hundredths
calculateDefenseBonus(g) ==
  SumSeq([i \in 1..Len(SqList) |->
            IF g.board[SqList[i]].color = g.turn
            THEN 5 * Len(movesOf(g, SqList[i])) ELSE 0], 1)

\* 0.08 per legal capture landing on each enemy piece, in hundredths
calculateAttackBonus(g) ==
  LET ourMoves == Moves(g)
  IN SumSeq([i \in 1..Len(SqList) |->
               IF g.board[SqList[i]] = NoPiece \/ g.board[SqList[i]].color = g.turn
               THEN 0
               ELSE 8 * Cardinality({j \in 1..Len(ourMoves) :
                                       /\ ourMoves[j].to = SqList[i]
                                       /\ ourMoves[j].captured # "-"})], 1)

\* in hundredths
evaluateBoard(self, g) ==
  LET sign == IF g.turn = "b" THEN 1 ELSE -1
  IN Material(g) +
     (IF self.opponentStyle = "aggressive" THEN calculateDefenseBonus(g) * sign
      ELSE IF self.opponentStyle = "defensive" THEN calculateAttackBonus(g) * sign
      ELSE 0)

\* the moves of a node in the order the node visits them.  shuf is the
\* outcome of the node's shuffle roll: "none" (no shuffle) or the permutation
\* the random sort produces.
NodeMoves(game, skillLevel, shuf) ==
  IF RLt(skillLevel, RInt(5)) /\ shuf # "none" THEN Shuffle(Moves(game), shuf)
  ELSE IF RLe(RInt(5), skillLevel) THEN SortByHeuristic(Moves(game), game)
  ELSE Moves(game)

\* st: [alpha, beta, best], the loop's running values; one pass of the loop
\* body, the child having scored ev
MinimaxStep(st, ev, maximizing) ==
  IF maximizing
  THEN [alpha |-> IMax(st.alpha, ev), beta |-> st.beta, best |-> IMax(st.best, ev)]
  ELSE [alpha |-> st.alpha, beta |-> IMin(st.beta, ev), best |-> IMin(st.best, ev)]

\* a loop that leaves after its first child, whatever the window
BreakAlways(self, game, ms, i, depth, maximizing, skillLevel, shuf, st) ==
  [ret |-> st.best, game |-> game]

\* [ret, game]: the score, and the Chess object it was given after the call
RECURSIVE minimax(_, _, _, _, _, _, _, _)
RECURSIVE MinimaxLoop(_, _, _, _, _, _, _, _, _)
RECURSIVE MinimaxProbe(_, _, _, _, _, _, _, _, _)
RECURSIVE MinimaxNext(_, _, _, _, _, _, _, _, _)

\* if (beta <= alpha) break
MinimaxNext(self, game, ms, i, depth, maximizing, skillLevel, shuf, st) ==
  IF st.beta <= st.alpha THEN [ret |-> st.best, game |-> game]
  ELSE MinimaxLoop(self, game, ms, i + 1, depth, maximizing, skillLevel, shuf, st)

MinimaxProbe(self, ms, i, depth, maximizing, skillLevel, shuf, st, pr) ==
  MinimaxNext(self, pr.game, ms, i, depth, maximizing, skillLevel, shuf,
              MinimaxStep(st, minimax(self, pr.clone, depth - 1, st.alpha, st.beta,
                                      ~maximizing, skillLevel, shuf).ret,
                          maximizing))

MinimaxLoop(self, game, ms, i, depth, maximizing, skillLevel, shuf, st) ==
  IF i > Len(ms) THEN [ret |-> st.best, game |-> game]
  ELSE MinimaxProbe(self, ms, i, depth, maximizing, skillLevel, shuf, st,
                    Probe(game, ms[i].san))

minimax(self, game, depth, alpha, beta, maximizing, skillLevel, shuf) ==
  IF depth = 0 \/ isGameOver(game)
  THEN [ret |-> evaluateBoard(self, game), game |-> game]
  ELSE MinimaxLoop(self, game, NodeMoves(game, skillLevel, shuf), 1, depth,
                   maximizing, skillLevel, shuf,
                   [alpha |-> alpha, beta |-> beta,
                    best |-> IF maximizing THEN -Infinity ELSE Infinity])

PieceCount(g) == Cardinality({s \in Squares : g.board[s] # NoPiece})

\* st: [alpha, beta, bestMove, bestValue]; one pass of the root loop body,
\* move m having scored ev
RootStep(st, m, ev, white) ==
  [alpha |-> IF white THEN IMax(st.alpha, ev) ELSE st.alpha,
   beta |-> IF white THEN st.beta ELSE IMin(st.beta, ev),
   bestMove |-> IF (white /\ ev > st.bestValue) \/ (~white /\ ev < st.bestValue)
                THEN m ELSE st.bestMove,
   bestValue |-> IF (white /\ ev > st.bestValue) \/ (~white /\ ev < st.bestValue)
                 THEN ev ELSE st.bestValue]

\* the root loop of getMove: [ret, game] with ret the best move
RECURSIVE RootLoop(_, _, _, _, _, _, _, _)
RECURSIVE RootProbe(_, _, _, _, _, _, _, _)
RECURSIVE RootNext(_, _, _, _, _, _, _, _)

\* the early exit on a decisive score (100, in hundredths)
RootNext(self, game, ms, i, depth, skillLevel, shuf, st) ==
  IF \/ game.turn = "w" /\ st.bestValue >= 10000
     \/ game.turn = "b" /\ st.bestValue <= -10000
  THEN [ret |-> st.bestMove, game |-> game]
  ELSE RootLoop(self, game, ms, i + 1, depth, skillLevel, shuf, st)

RootProbe(self, ms, i, depth, skillLevel, shuf, st, pr) ==
  RootNext(self, pr.game, ms, i, depth, skillLevel, shuf,
           RootStep(st, ms[i],
                    minimax(self, pr.clone, depth - 1, st.alpha, st.beta,
                            pr.game.turn = "b", skillLevel, shuf).ret,
                    pr.game.turn = "w"))

RootLoop(self, game, ms, i, depth, skillLevel, shuf, st) ==
  IF i > Len(ms) THEN [ret |-> st.bestMove, game |-> game]
  ELSE RootProbe(self, ms, i, depth, skillLevel, shuf, st, Probe(game, ms[i].san))

\* the random outcomes one getMove call consumes
AdjustmentValues == {Rat(-1, 2), Rat(9, 10)}
NodeShuffles == {"none", "reverse"}
AllRandoms ==
  [adjustment : AdjustmentValues, up : BOOLEAN, down : BOOLEAN,
   perm : RootShuffles, shuf : NodeShuffles]
NoRandoms ==
  [adjustment |-> Rat(-1, 2), up |-> FALSE, down |-> FALSE, perm |-> "keep",
   shuf |-> "none"]

\* the reduction without its floor at 1
AdjustDepthUnfloored(depth, pieceCount) ==
  IF pieceCount > 20 THEN depth - 2
  ELSE IF pieceCount > 10 THEN depth - 1
  ELSE depth

\* if (pieceCount > 20) depth = Math.max(1, depth - 2);
\* else if (pieceCount > 10) depth = Math.max(1, depth - 1)
AdjustDepth(depth, pieceCount) ==
  IF pieceCount > 20 THEN IMax(1, depth - 2)
  ELSE IF pieceCount > 10 THEN IMax(1, depth - 1)
  ELSE depth

SearchDepth(self, game, rnd) ==
  AdjustDepth(getDepthForOpponent(self, rnd.up, rnd.down), PieceCount(game))

Sample(all, skillLevel, perm) ==
  IF RLt(skillLevel, RInt(5)) THEN Slice(Shuffle(all, perm), 5)
  ELSE IF RLt(skillLevel, RInt(8)) THEN Slice(Shuffle(all, perm), 15)
  ELSE all

Candidates(game, skillLevel, perm) ==
  IF RLe(RInt(5), skillLevel)
  THEN SortByHeuristic(Sample(Moves(game), skillLevel, perm), game)
  ELSE Sample(Moves(game), skillLevel, perm)

\* a roll the call does not make is fixed: no root shuffle is rolled at skill
\* level 8 or more, no node shuffle at 5 or more
Randoms(self) ==
  {rnd \in AllRandoms :
     /\ RLe(RInt(8), getSkillLevel(self, rnd.adjustment)) => rnd.perm = "keep"
     /\ RLe(RInt(5), getSkillLevel(self, rnd.adjustment)) => rnd.shuf = "none"}

\* the emptiness test left out
NeverEmpty(ms) == FALSE

\* bestMove.lan in place of bestMove.san: the squares without the piece letter
LanOf(m) == [m.san EXCEPT !.piece = "-", !.x = FALSE, !.suffix = ""]

\* moves.length <= 1: nothing to choose from
NoChoice(ms) == Len(ms) <= 1

\* moves.length === 0
NoMoves(ms) == Len(ms) = 0

\* bestMove.san
SanOf(m) == m.san

\* return bestMove.san: reading .san of undefined raises
getMoveResult(self, r) ==
  IF r.ret = Undefined
  THEN [ret |-> NullSan, self |-> self, game |-> r.game, threw |-> TRUE]
  ELSE [ret |-> SanOf(r.ret), self |-> self, game |-> r.game, threw |-> FALSE]

getMoveSearch(self, game, skillLevel, depth, ms, shuf) ==
  getMoveResult(self,
    RootLoop(self, game, ms, 1, depth, skillLevel, shuf,
             [alpha |-> -Infinity, beta |-> Infinity, bestMove |-> First(ms),
              bestValue |-> IF game.turn = "w" THEN -Infinity ELSE Infinity]))

getMoveAt(self, game, rnd, skillLevel) ==
  IF NoMoves(Moves(game))
  THEN [ret |-> NullSan, self |-> self, game |-> game, threw |-> FALSE]
  ELSE getMoveSearch(self, game, skillLevel, SearchDepth(self, game, rnd),
                     Candidates(game, skillLevel, rnd.perm), rnd.shuf)

\* a getMove that learns from its own choice: it lowers the estimate it holds
getMoveAdapting(self, game, rnd) ==
  [ret |-> SanOf(First(Moves(game))),
   self |-> [self EXCEPT !.opponentSkillEstimate = RInt(1)],
   game |-> game, threw |-> FALSE]

\* [ret, self, game, threw]: the SAN chosen (NullSan for null)
getMove(self, game, rnd) ==
  getMoveAt(self, game, rnd, getSkillLevel(self, rnd.adjustment))

(***************************************************************************)
(* hyperbolicAI.ts: HyperbolicChessAI                                      *)
(***************************************************************************)
NewHyperbolicChessAI == [temperature |-> Rat(6, 5), riskFactor |-> Rat(7, 10)]

\* the integer nearest to a rational (halves up)
RRound(r) == (2 * r[1] + r[2]) \div (2 * r[2])

\* Math.pow at reduced precision, on hundredths: a^(1/5) and a^(1/10) in
\* sixteenths, a >= 0
Root5(a) == CHOOSE r \in 0..40 :
              /\ r * r * r * r * r <= a * 10485
              /\ (r + 1) * (r + 1) * (r + 1) * (r + 1) * (r + 1) > a * 10485
Root10(a) == CHOOSE r \in 0..40 :
               /\ r * r <= 16 * Root5(a)
               /\ (r + 1) * (r + 1) > 16 * Root5(a)
Pow12(a) == (a * Root5(a)) \div 16
Pow13(a) == (a * Root5(a) * Root10(a)) \div 256

\* in hundredths
HyperbolicEvaluateBoard(self, g) ==
  LET value(sq) ==
        100 * PIECE_VALUES(g.board[sq].type)
        + RRound(RMul(RInt(5 * countAttacks(g, sq)), self.temperature))
      attackedValue(sq) ==
        LET ms == movesOf(g, sq)
        IN SumSeq([i \in 1..Len(ms) |-> 10 * PIECE_VALUES(ms[i].captured)], 1)
      occupied == [i \in 1..Len(SqList) |-> g.board[SqList[i]] # NoPiece]
      evaluation ==
        SumSeq([i \in 1..Len(SqList) |->
                  IF ~occupied[i] THEN 0
                  ELSE IF g.board[SqList[i]].color = "w" THEN value(SqList[i])
                  ELSE -value(SqList[i])], 1)
      attackBonus ==
        SumSeq([i \in 1..Len(SqList) |->
                  IF ~occupied[i] THEN 0
                  ELSE RRound(RMul(RInt(attackedValue(SqList[i])), self.riskFactor))], 1)
  IN Sgn(evaluation) * Pow12(Abs(evaluation)) + attackBonus

applyHyperbolicTransform(score) == Sgn(score) * Pow13(Abs(score))

\* (Math.random() - 0.5) per candidate: pattern k rotates -1/2, 0, 49/100
\* over the candidates; pattern 3 is no noise at all
NoisePatterns == {0, 1, 2, 3}
NoiseUnit(k, i) ==
  IF k = 3 THEN RInt(0)
  ELSE LET j == (i + k) % 3
       IN IF j = 0 THEN Rat(-1, 2) ELSE IF j = 1 THEN RInt(0) ELSE Rat(49, 100)

HyperbolicScore(self, clone, k, i) ==
  applyHyperbolicTransform(HyperbolicEvaluateBoard(self, clone))
  + RRound(RMul(RInt(100), RMul(NoiseUnit(k, i), self.temperature)))

\* st: [bestMove, bestScore]
HyperbolicStep(st, m, score, white) ==
  IF (white /\ score > st.bestScore) \/ (~white /\ score < st.bestScore)
  THEN [bestMove |-> m, bestScore |-> score]
  ELSE st

RECURSIVE HyperbolicLoop(_, _, _, _, _, _)
RECURSIVE HyperbolicProbe(_, _, _, _, _, _)
HyperbolicProbe(self, ms, i, k, st, pr) ==
  HyperbolicLoop(self, pr.game, ms, i + 1, k,
                 HyperbolicStep(st, ms[i], HyperbolicScore(self, pr.clone, k, i),
                                pr.game.turn = "w"))

HyperbolicLoop(self, game, ms, i, k, st) ==
  IF i > Len(ms) THEN [ret |-> st.bestMove, game |-> game]
  ELSE HyperbolicProbe(self, ms, i, k, st, Probe(game, ms[i].san))

HyperbolicSearch(self, game, ms, k) ==
  getMoveResult(self,
    HyperbolicLoop(self, game, ms, 1, k,
                   [bestMove |-> First(ms),
                    bestScore |-> IF game.turn = "w" THEN -Infinity ELSE Infinity]))

\* [ret, self, game, threw]
HyperbolicGetMove(self, game, k) ==
  IF NoMoves(Moves(game))
  THEN [ret |-> NullSan, self |-> self, game |-> game, threw |-> FALSE]
  ELSE HyperbolicSearch(self, game, Moves(game), k)

(***************************************************************************)
(* Bounds                                                                  *)
(***************************************************************************)
MaxPlies == 2       \* half-moves applied in one session
MaxResets == 1      \* resetGame calls
MaxTimers == 4      \* setTimeout calls

\* seconds between two moves, as measured with Date.now()
TimeTakenValues == {RInt(2), RInt(100)}
\* seconds one getMove call takes
ThinkTimes == {Rat(1, 100)}

(***************************************************************************)
(* State                                                                   *)
(***************************************************************************)
VARIABLES
  page,         \* the mounted route: "index", "play" (HumanVsAI), "watch" (AIvsAI)
  game,         \* useState: the displayed Chess object
  gameRef,      \* AIvsAI: gameRef.current
  moves,        \* useState: the SAN list
  moveHistory,  \* useState: the MoveRecords
  thinking,     \* HumanVsAI useState
  playing,      \* AIvsAI useState
  playingRef,   \* AIvsAI: playingRef.current
  gameOver,     \* useState
  result,       \* useState
  currentEval,  \* useState
  engines,      \* every AdaptiveChessAI constructed so far, in order
  aiRef,        \* aiRef.current / adaptiveRef.current: an index into engines
  hyperbolicRef,\* AIvsAI: hyperbolicRef.current
  timers,       \* pending setTimeout callbacks
  timeoutRef,   \* AIvsAI: timeoutRef.current (0 for null)
  nextTimer,    \* the id the next setTimeout returns
  resets,       \* resetGame calls so far
  call          \* the last operation invoked and what it returned

vars == <<page, game, gameRef, moves, moveHistory, thinking, playing, playingRef,
          gameOver, result, currentEval, engines, aiRef, hyperbolicRef, timers,
          timeoutRef, nextTimer, resets, call, rules>>

NoCall == [op |-> "none", ret |-> "none"]

Init ==
  /\ page = "index"
  /\ game = StartChess
  /\ gameRef = StartChess
  /\ moves = <<>>
  /\ moveHistory = <<>>
  /\ thinking = FALSE
  /\ playing = FALSE
  /\ playingRef = FALSE
  /\ gameOver = FALSE
  /\ result = "null"
  /\ currentEval = 0
  /\ engines = <<NewAdaptiveChessAI>>
  /\ aiRef = 1
  /\ hyperbolicRef = NewHyperbolicChessAI
  /\ timers = {}
  /\ timeoutRef = 0
  /\ nextTimer = 1
  /\ resets = 0
  /\ call = NoCall
  /\ rules = Book({StartChess})

(***************************************************************************)
(* Index.tsx                                                               *)
(***************************************************************************)
Navigate(p) ==
  /\ page = "index"
  /\ page' = p
  /\ call' = [op |-> "navigate", ret |-> p]
  /\ UNCHANGED <<game, gameRef, moves, moveHistory, thinking, playing, playingRef,
                 gameOver, result, currentEval, engines, aiRef, hyperbolicRef,
                 timers, timeoutRef, nextTimer, resets, rules>>

(***************************************************************************)
(* HumanVsAI.tsx                                                           *)
(***************************************************************************)
HumanResult(g) ==
  IF isCheckmate(g)
  THEN (IF g.turn = "w" THEN "Black wins by checkmate!" ELSE "White wins by checkmate!")
  ELSE IF isDraw(g) THEN "Draw!"
  ELSE IF isStalemate(g) THEN "Stalemate!"
  ELSE "Game over!"

\* gameCopy.move({from, to, promotion: "q"}): the legal moves it may find
DropMoves(g, a, b) ==
  LET ms == Moves(g)
  IN {i \in 1..Len(ms) : ms[i].from = a /\ ms[i].to = b /\ ms[i].promotion \in {"-", "q"}}

\* a rejected drop that also calls setThinking(false)
onDropClearing ==
  /\ page = "play"
  /\ thinking' = FALSE
  /\ call' = [op |-> "onDrop", ret |-> "false"]
  /\ UNCHANGED <<page, game, gameRef, moves, moveHistory, playing,
                 playingRef, gameOver, result, currentEval, engines, aiRef,
                 hyperbolicRef, timers, timeoutRef, nextTimer, resets, rules>>

\* onDrop returning false: the early return, or a move the rules engine rejects
onDropRejected ==
  /\ page = "play"
  /\ \/ thinking \/ gameOver \/ game.turn # "w"
     \/ {ab \in Squares \X Squares :
           DropMoves(NewChess(fen(game)), ab[1], ab[2]) = {}} # {}
  /\ call' = [op |-> "onDrop", ret |-> "false"]
  /\ UNCHANGED <<page, game, gameRef, moves, moveHistory, thinking, playing,
                 playingRef, gameOver, result, currentEval, engines, aiRef,
                 hyperbolicRef, timers, timeoutRef, nextTimer, resets, rules>>

\* the state after an accepted drop: ai is the engine after the assessment,
\* ev the evaluation of the new position
onDropApply(mv, timeTaken, gameCopy, ai, ev) ==
  /\ engines' = [engines EXCEPT ![aiRef] = ai]
  /\ game' = NewChess(fen(gameCopy))
  /\ moves' = Append(moves, mv.san)
  /\ currentEval' = ev
  /\ moveHistory' = Append(moveHistory,
       [san |-> mv.san, player |-> "white", evalScore |-> ev,
        skillLevel |-> ai.opponentSkillEstimate, timeTaken |-> timeTaken])
  /\ IF isGameOver(gameCopy)
     THEN /\ gameOver' = TRUE
          /\ result' = HumanResult(gameCopy)
          /\ UNCHANGED <<thinking, timers, nextTimer>>
     ELSE \* makeAIMove(gameCopy)
          /\ thinking' = TRUE
          /\ timers' = timers \cup
               {[id |-> nextTimer, fn |-> "makeAIMove", currentGame |-> gameCopy]}
          /\ nextTimer' = nextTimer + 1
          /\ UNCHANGED <<gameOver, result>>
  /\ call' = [op |-> "onDrop", ret |-> "true"]

\* upd is what updateOpponentAssessment did; a raise is caught and the drop
\* rejected
onDropAssess(mv, timeTaken, gameCopy, upd) ==
  IF upd.threw
  THEN /\ call' = [op |-> "onDrop", ret |-> "false"]
       /\ UNCHANGED <<engines, game, moves, currentEval, moveHistory, gameOver,
                      result, thinking, timers, nextTimer>>
  ELSE onDropApply(mv, timeTaken, gameCopy, upd.self,
                   evaluateBoard(upd.self, gameCopy))

\* onDrop(mv.from, mv.to) returning true, mv the i-th legal move
onDropAccepted(i, timeTaken) ==
  /\ page = "play"
  /\ Len(moves) < MaxPlies
  /\ nextTimer <= MaxTimers
  /\ ~(thinking \/ gameOver \/ game.turn # "w")
  /\ i \in 1..Len(Moves(NewChess(fen(game))))
  /\ i \in DropMoves(NewChess(fen(game)), Moves(NewChess(fen(game)))[i].from,
                     Moves(NewChess(fen(game)))[i].to)
  /\ onDropAssess(Moves(NewChess(fen(game)))[i], timeTaken,
                  move(NewChess(fen(game)), Moves(NewChess(fen(game)))[i].san),
                  updateOpponentAssessment(engines[aiRef], game,
                                           Moves(NewChess(fen(game)))[i].san, timeTaken))
  /\ UNCHANGED <<page, gameRef, playing, playingRef, aiRef, hyperbolicRef,
                 timeoutRef, resets, rules>>

\* the callback after currentGame.move(moveSan); ai is aiRef.current as the
\* call of getMove left it, ev is getEval(currentGame)
makeAIMoveRecord(timeTaken, moveSan, currentGame, ai, ev) ==
  /\ game' = NewChess(fen(currentGame))
  /\ moves' = Append(moves, moveSan)
  /\ currentEval' = ev
  /\ moveHistory' = Append(moveHistory,
       [san |-> moveSan, player |-> "black", evalScore |-> ev,
        skillLevel |-> ai.opponentSkillEstimate,
        timeTaken |-> timeTaken])
  /\ IF isGameOver(currentGame)
     THEN gameOver' = TRUE /\ result' = HumanResult(currentGame)
     ELSE UNCHANGED <<gameOver, result>>
  /\ thinking' = FALSE

makeAIMoveMoved(timeTaken, moveSan, currentGame, ai) ==
  makeAIMoveRecord(timeTaken, moveSan, currentGame, ai, evaluateBoard(ai, currentGame))

\* r is what getMove returned; a raise leaves the callback before
\* setThinking(false)
makeAIMoveApply(timeTaken, r) ==
  /\ engines' = [engines EXCEPT ![aiRef] = r.self]
  /\ IF r.threw
     THEN UNCHANGED <<game, moves, currentEval, moveHistory, gameOver, result, thinking>>
     ELSE IF r.ret = NullSan
     THEN /\ thinking' = FALSE
          /\ UNCHANGED <<game, moves, currentEval, moveHistory, gameOver, result>>
     ELSE makeAIMoveMoved(timeTaken, r.ret, move(r.game, r.ret), r.self)

\* the callback makeAIMove hands to setTimeout
makeAIMoveTimeout(t, rnd, timeTaken) ==
  /\ page = "play"
  /\ t \in timers /\ t.fn = "makeAIMove"
  /\ timers' = timers \ {t}
  /\ makeAIMoveApply(timeTaken, getMove(engines[aiRef], t.currentGame, rnd))
  /\ call' = [op |-> "makeAIMove", ret |-> "done"]
  /\ UNCHANGED <<page, gameRef, playing, playingRef, aiRef, hyperbolicRef,
                 timeoutRef, nextTimer, resets, rules>>

HumanResetGame ==
  /\ page = "play"
  /\ resets < MaxResets
  /\ resets' = resets + 1
  /\ game' = StartChess
  /\ moves' = <<>>
  /\ moveHistory' = <<>>
  /\ gameOver' = FALSE
  /\ result' = "null"
  /\ thinking' = FALSE
  /\ currentEval' = 0
  /\ engines' = Append(engines, NewAdaptiveChessAI)
  /\ aiRef' = Len(engines) + 1
  /\ call' = [op |-> "resetGame", ret |-> "done"]
  /\ UNCHANGED <<page, gameRef, playing, playingRef, hyperbolicRef, timers,
                 timeoutRef, nextTimer, rules>>

(***************************************************************************)
(* AIvsAI.tsx                                                              *)
(***************************************************************************)
WatchResult(g) ==
  IF isCheckmate(g)
  THEN (IF g.turn = "w" THEN "Hyperbolic AI wins!" ELSE "Adaptive AI wins!")
  ELSE "Draw!"

\* clearTimeout(timeoutRef.current): a null or already fired id clears nothing
clearTimeout(ts, id) == {t \in ts : t.id # id}

startPlaying ==
  /\ page = "watch"
  /\ ~gameOver /\ ~playing
  /\ nextTimer <= MaxTimers
  /\ playing' = TRUE
  /\ playingRef' = TRUE
  /\ timers' = timers \cup {[id |-> nextTimer, fn |-> "playNextMove"]}
  /\ nextTimer' = nextTimer + 1
  /\ call' = [op |-> "startPlaying", ret |-> "done"]
  /\ UNCHANGED <<page, game, gameRef, moves, moveHistory, thinking, gameOver, result,
                 currentEval, engines, aiRef, hyperbolicRef, timeoutRef, resets, rules>>

pausePlaying ==
  /\ page = "watch"
  /\ ~gameOver /\ playing
  /\ playing' = FALSE
  /\ playingRef' = FALSE
  /\ timers' = clearTimeout(timers, timeoutRef)
  /\ call' = [op |-> "pausePlaying", ret |-> "done"]
  /\ UNCHANGED <<page, game, gameRef, moves, moveHistory, thinking, gameOver, result,
                 currentEval, engines, aiRef, hyperbolicRef, timeoutRef, nextTimer,
                 resets, rules>>

\* playNextMove after g.move(moveSan); ai is adaptiveRef.current as the call
\* of getMove left it, evalScore is evaluateBoard(g)
playNextMoveRecord(t, timeTaken, moveSan, isWhite, g, ai, evalScore) ==
  /\ gameRef' = NewChess(fen(g))
  /\ game' = NewChess(fen(g))
  /\ moves' = Append(moves, moveSan)
  /\ currentEval' = evalScore
  /\ moveHistory' = Append(moveHistory,
       [san |-> moveSan, player |-> IF isWhite THEN "white" ELSE "black",
        evalScore |-> evalScore, timeTaken |-> timeTaken,
        adaptiveSkill |-> ai.opponentSkillEstimate])
  /\ IF isGameOver(g)
     THEN /\ gameOver' = TRUE
          /\ result' = WatchResult(g)
          /\ playing' = FALSE
          /\ playingRef' = FALSE
          /\ timers' = timers \ {t}
          /\ UNCHANGED <<timeoutRef, nextTimer>>
     ELSE /\ timeoutRef' = nextTimer
          /\ timers' = (timers \ {t}) \cup {[id |-> nextTimer, fn |-> "playNextMove"]}
          /\ nextTimer' = nextTimer + 1
          /\ UNCHANGED <<gameOver, result, playing, playingRef>>

playNextMoveMoved(t, timeTaken, moveSan, isWhite, g, ai) ==
  playNextMoveRecord(t, timeTaken, moveSan, isWhite, g, ai, evaluateBoard(ai, g))

\* r is what the engine to move returned, ai is adaptiveRef.current after
\* that call
playNextMoveApply(t, timeTaken, isWhite, r, ai) ==
  /\ engines' = [engines EXCEPT ![aiRef] = ai]
  /\ IF r.threw \/ r.ret = NullSan
     THEN /\ timers' = timers \ {t}
          /\ UNCHANGED <<game, gameRef, moves, moveHistory, playing, playingRef,
                         gameOver, result, currentEval, timeoutRef, nextTimer>>
     ELSE playNextMoveMoved(t, timeTaken, r.ret, isWhite, move(r.game, r.ret), ai)

\* a playNextMove that assesses the move played, as onDrop of HumanVsAI does
playNextMoveAssessing(t, timeTaken, r) ==
  playNextMoveApply(t, timeTaken, TRUE, r,
    updateOpponentAssessment(r.self, r.game, r.ret, timeTaken).self)

\* the adaptive engine moves: getMove may have written to its own fields
playNextMoveAdaptive(t, timeTaken, r) ==
  playNextMoveApply(t, timeTaken, TRUE, r, r.self)

\* the callback playNextMove; rnd and k are the random outcomes of the engine
\* whose turn it is
playNextMoveTimeout(t, rnd, k, timeTaken) ==
  /\ page = "watch"
  /\ t \in timers /\ t.fn = "playNextMove"
  /\ (playingRef /\ ~isGameOver(gameRef))
       => (Len(moves) < MaxPlies /\ nextTimer <= MaxTimers)
  /\ call' = [op |-> "playNextMove", ret |-> "done"]
  /\ IF ~playingRef \/ isGameOver(gameRef)
     THEN /\ timers' = timers \ {t}
          /\ UNCHANGED <<game, gameRef, moves, moveHistory, playing, playingRef,
                         gameOver, result, currentEval, timeoutRef, nextTimer,
                         engines>>
     ELSE IF gameRef.turn = "w"
     THEN playNextMoveAdaptive(t, timeTaken, getMove(engines[aiRef], gameRef, rnd))
     ELSE playNextMoveApply(t, timeTaken, FALSE,
                            HyperbolicGetMove(hyperbolicRef, gameRef, k),
                            engines[aiRef])
  /\ UNCHANGED <<page, thinking, aiRef, hyperbolicRef, resets, rules>>

WatchResetGame ==
  /\ page = "watch"
  /\ resets < MaxResets
  /\ resets' = resets + 1
  /\ playing' = FALSE
  /\ playingRef' = FALSE
  /\ timers' = clearTimeout(timers, timeoutRef)
  /\ gameRef' = StartChess
  /\ game' = StartChess
  /\ moves' = <<>>
  /\ moveHistory' = <<>>
  /\ gameOver' = FALSE
  /\ result' = "null"
  /\ currentEval' = 0
  /\ engines' = Append(engines, NewAdaptiveChessAI)
  /\ aiRef' = Len(engines) + 1
  /\ hyperbolicRef' = NewHyperbolicChessAI
  /\ call' = [op |-> "resetGame", ret |-> "done"]
  /\ UNCHANGED <<page, thinking, timeoutRef, nextTimer, rules>>

\* the random outcomes the engine to move consumes in one playNextMove call
WatchRandoms == IF gameRef.turn = "w" THEN Randoms(engines[aiRef]) ELSE {NoRandoms}
WatchNoise == IF gameRef.turn = "w" THEN {0} ELSE NoisePatterns

Next ==
  \/ \E p \in {"play", "watch"} : Navigate(p)
  \/ onDropRejected
  \/ \E i \in 1..Len(Moves(game)), tt \in TimeTakenValues : onDropAccepted(i, tt)
  \/ \E t \in timers, rnd \in Randoms(engines[aiRef]), tt \in ThinkTimes :
       makeAIMoveTimeout(t, rnd, tt)
  \/ HumanResetGame
  \/ startPlaying
  \/ pausePlaying
  \/ \E t \in timers, rnd \in WatchRandoms, k \in WatchNoise, tt \in ThinkTimes :
       playNextMoveTimeout(t, rnd, k, tt)
  \/ WatchResetGame

Spec == Init /\ [][Next]_vars

(***************************************************************************)
(* The engines and the evaluation library called directly, one call at a   *)
(* time on a Chess object the caller holds.  call records the operation,   *)
(* its arguments, what it returned and whether it raised; the caller       *)
(* builds its next Chess object before the next call.                      *)
(***************************************************************************)
\* a position without legal moves: QueenBoard after Qe7, mate
MatedBoard == Place(Place(Place(EmptyBoard, 46, "w", "k"), 57, "w", "q"), 48, "b", "k")
\* black to move with its king alone: every king move leaves white 7 quiet
\* moves on QuietBoard (style score -0.7) and 6 on EdgeBoard (-0.6)
QuietBoard == Place(Place(Place(EmptyBoard, 45, "w", "k"), 46, "w", "q"), 48, "b", "k")
EdgeBoard == Place(Place(Place(EmptyBoard, 46, "w", "k"), 55, "w", "q"), 58, "b", "k")
ProfilePositions ==
  {StartChess, Chess(QueenBoard, "w"), Chess(MatedBoard, "b"),
   Chess(QuietBoard, "b"), Chess(EdgeBoard, "b")}
EnginePositions == ProfilePositions \cup {Chess(PawnBoard, "w")}

\* the SAN strings handed to the engines: every move of the positions ps,
\* legal in the position at hand or not
SanInputs(ps) == UNION {{Moves(h)[i].san : i \in 1..Len(Moves(h))} : h \in ps}

MaxUpdates == 2        \* updateOpponentAssessment calls on one engine
MaxAssessments == 1    \* the same, where the searches are called too
MaxDepth == 2          \* the depth handed to minimax
ProfileTimes == {RInt(0), RInt(2), RInt(1000)}
EngineTimes == {Rat(3, 4)}
SkillLevels == {RInt(3), RInt(6)}

InitHarnessWith(ps, book) ==
  /\ page = "none"
  /\ game \in ps
  /\ gameRef = StartChess
  /\ moves = <<>>
  /\ moveHistory = <<>>
  /\ thinking = FALSE
  /\ playing = FALSE
  /\ playingRef = FALSE
  /\ gameOver = FALSE
  /\ result = "null"
  /\ currentEval = 0
  /\ engines = <<NewAdaptiveChessAI>>
  /\ aiRef = 1
  /\ hyperbolicRef = NewHyperbolicChessAI
  /\ timers = {}
  /\ timeoutRef = 0
  /\ nextTimer = 1
  /\ resets = 0
  /\ call = NoCall
  /\ rules = book

InitHarness(ps) == InitHarnessWith(ps, Book(ps))

InitProfile == InitHarness(ProfilePositions)
InitEngine == InitHarness(EnginePositions)

Idle == call.op = "none"

\* what no direct call touches
HarnessFrame ==
  UNCHANGED <<page, gameRef, moves, moveHistory, thinking, playing, playingRef,
              gameOver, result, currentEval, aiRef, timers, timeoutRef, nextTimer,
              resets, rules>>

\* new Chess(fen)
newChess(g) ==
  /\ game' = g
  /\ call' = NoCall
  /\ UNCHANGED <<engines, hyperbolicRef>>
  /\ HarnessFrame

\* r: [self, game, threw], what the call did
updateOpponentAssessmentDone(moveSan, timeTaken, r) ==
  /\ engines' = [engines EXCEPT ![aiRef] = r.self]
  /\ game' = r.game
  /\ call' = [op |-> "updateOpponentAssessment", ret |-> "undefined",
              threw |-> r.threw, arg |-> [san |-> moveSan, timeTaken |-> timeTaken]]

updateOpponentAssessmentCall(moveSan, timeTaken) ==
  /\ Idle
  /\ updateOpponentAssessmentDone(moveSan, timeTaken,
       updateOpponentAssessment(engines[aiRef], game, moveSan, timeTaken))
  /\ UNCHANGED hyperbolicRef
  /\ HarnessFrame

getSkillLevelCall(adjustment) ==
  /\ Idle
  /\ call' = [op |-> "getSkillLevel", ret |-> getSkillLevel(engines[aiRef], adjustment),
              threw |-> FALSE, arg |-> adjustment]
  /\ UNCHANGED <<engines, game, hyperbolicRef>>
  /\ HarnessFrame

getDepthForOpponentCall(up, down) ==
  /\ Idle
  /\ call' = [op |-> "getDepthForOpponent",
              ret |-> getDepthForOpponent(engines[aiRef], up, down),
              threw |-> FALSE, arg |-> <<up, down>>]
  /\ UNCHANGED <<engines, game, hyperbolicRef>>
  /\ HarnessFrame

evaluateBoardCall ==
  /\ Idle
  /\ call' = [op |-> "evaluateBoard", ret |-> evaluateBoard(engines[aiRef], game),
              threw |-> FALSE, arg |-> "none"]
  /\ UNCHANGED <<engines, game, hyperbolicRef>>
  /\ HarnessFrame

\* r: [ret, self, game, threw]
getMoveDone(rnd, r) ==
  /\ engines' = [engines EXCEPT ![aiRef] = r.self]
  /\ game' = r.game
  /\ call' = [op |-> "getMove", ret |-> r.ret, threw |-> r.threw, arg |-> rnd]

\* the depths getDepthForOpponent can return, and piece counts on both sides
\* of the two thresholds of getMove
Depths == 1..10
PieceCounts == {2, 10, 11, 20, 21, 32}

\* the piece-count reduction of getMove, on a full-sized board
reduceDepthCall(depth, pieceCount) ==
  /\ Idle
  /\ call' = [op |-> "reduceDepth", ret |-> AdjustDepth(depth, pieceCount),
              threw |-> FALSE, arg |-> <<depth, pieceCount>>]
  /\ UNCHANGED <<engines, game, hyperbolicRef>>
  /\ HarnessFrame

getMoveCall(rnd) ==
  /\ Idle
  /\ getMoveDone(rnd, getMove(engines[aiRef], game, rnd))
  /\ UNCHANGED hyperbolicRef
  /\ HarnessFrame

HyperbolicGetMoveDone(k, r) ==
  /\ hyperbolicRef' = r.self
  /\ game' = r.game
  /\ call' = [op |-> "HyperbolicGetMove", ret |-> r.ret, threw |-> r.threw, arg |-> k]

HyperbolicGetMoveCall(k) ==
  /\ Idle
  /\ HyperbolicGetMoveDone(k, HyperbolicGetMove(hyperbolicRef, game, k))
  /\ UNCHANGED engines
  /\ HarnessFrame

\* r: [ret, game]
minimaxDone(arg, r) ==
  /\ game' = r.game
  /\ call' = [op |-> "minimax", ret |-> r.ret, threw |-> FALSE, arg |-> arg]

minimaxCall(depth, maximizing, skillLevel, shuf) ==
  /\ Idle
  /\ minimaxDone(<<depth, maximizing, skillLevel, shuf>>,
                 minimax(engines[aiRef], game, depth, -Infinity, Infinity,
                         maximizing, skillLevel, shuf))
  /\ UNCHANGED <<engines, hyperbolicRef>>
  /\ HarnessFrame

HyperbolicEvaluateBoardCall ==
  /\ Idle
  /\ call' = [op |-> "HyperbolicEvaluateBoard",
              ret |-> HyperbolicEvaluateBoard(hyperbolicRef, game),
              threw |-> FALSE, arg |-> "none"]
  /\ UNCHANGED <<engines, game, hyperbolicRef>>
  /\ HarnessFrame

\* the functions of evaluation.ts that take a position only
EvaluationFunctions ==
  {"assessCenterControl", "assessPieceDevelopment", "calculateUndefendedPenalty",
   "calculatePositionComplexity"}

Evaluate(fn, g) ==
  CASE fn = "assessCenterControl" -> assessCenterControl(g)
    [] fn = "assessPieceDevelopment" -> assessPieceDevelopment(g)
    [] fn = "calculateUndefendedPenalty" -> calculateUndefendedPenalty(g)
    [] fn = "calculatePositionComplexity" -> RInt(calculatePositionComplexity(g))

evaluationCall(fn) ==
  /\ Idle
  /\ call' = [op |-> fn, ret |-> Evaluate(fn, game), threw |-> FALSE, arg |-> "none"]
  /\ UNCHANGED <<engines, game, hyperbolicRef>>
  /\ HarnessFrame

moveHeuristicCall(i) ==
  /\ Idle
  /\ i \in 1..Len(Moves(game))
  /\ call' = [op |-> "moveHeuristic", ret |-> moveHeuristic(game, Moves(game)[i]),
              threw |-> FALSE, arg |-> Moves(game)[i]]
  /\ UNCHANGED <<engines, game, hyperbolicRef>>
  /\ HarnessFrame

\* the profile operations
NextProfile ==
  \/ \E g \in ProfilePositions : newChess(g)
  \/ \E san \in SanInputs(ProfilePositions), tt \in ProfileTimes :
       Len(engines[aiRef].history) < MaxUpdates
         /\ updateOpponentAssessmentCall(san, tt)
  \/ \E adj \in AdjustmentValues : getSkillLevelCall(adj)
  \/ \E up, down \in BOOLEAN : getDepthForOpponentCall(up, down)
  \/ evaluateBoardCall

SpecProfile == InitProfile /\ [][NextProfile]_vars

\* every operation of the engines and of the evaluation library
NextEngine ==
  \/ \E g \in EnginePositions : newChess(g)
  \/ \E san \in SanInputs(EnginePositions), tt \in EngineTimes :
       Len(engines[aiRef].history) < MaxAssessments
         /\ updateOpponentAssessmentCall(san, tt)
  \/ \E adj \in AdjustmentValues : getSkillLevelCall(adj)
  \/ \E up, down \in BOOLEAN : getDepthForOpponentCall(up, down)
  \/ evaluateBoardCall
  \/ \E rnd \in Randoms(engines[aiRef]) : getMoveCall(rnd)
  \/ \E k \in NoisePatterns : HyperbolicGetMoveCall(k)
  \/ \E depth \in 0..MaxDepth, maximizing \in BOOLEAN, skillLevel \in SkillLevels,
        shuf \in NodeShuffles : minimaxCall(depth, maximizing, skillLevel, shuf)
  \/ HyperbolicEvaluateBoardCall
  \/ \E fn \in EvaluationFunctions : evaluationCall(fn)
  \/ \E i \in 1..Len(Moves(game)) : moveHeuristicCall(i)
  \/ \E depth \in Depths, pieceCount \in PieceCounts :
       reduceDepthCall(depth, pieceCount)

SpecEngine == InitEngine /\ [][NextEngine]_vars

\* the Hyperbolic engine on its own, its two public fields set by the caller
HyperbolicPositions ==
  {StartChess, Chess(QueenBoard, "w"), Chess(MatedBoard, "b"),
   Chess(EdgeBoard, "b"), Chess(PawnBoard, "w")}
Temperatures == {Rat(6, 5), RInt(0), RInt(3)}
RiskFactors == {Rat(7, 10), RInt(0), RInt(2)}

InitHyperbolic == InitHarness(HyperbolicPositions)

\* ai.temperature = t; ai.riskFactor = r
setHyperbolicFields(t, r) ==
  /\ Idle
  /\ hyperbolicRef' = [hyperbolicRef EXCEPT !.temperature = t, !.riskFactor = r]
  /\ call' = NoCall
  /\ UNCHANGED <<engines, game>>
  /\ HarnessFrame

NextHyperbolic ==
  \/ \E g \in HyperbolicPositions : newChess(g)
  \/ \E t \in Temperatures, r \in RiskFactors : setHyperbolicFields(t, r)
  \/ \E k \in NoisePatterns : HyperbolicGetMoveCall(k)
  \/ HyperbolicEvaluateBoardCall

SpecHyperbolic == InitHyperbolic /\ [][NextHyperbolic]_vars

(***************************************************************************)
(* Harness on the move ordering of getMove: the positions are looked at,   *)
(* never played on, so the rules engine answers for these positions only.  *)
(***************************************************************************)
OrderingPositions ==
  Reach({StartChess}, {StartChess})
    \cup {Chess(PawnBoard, "w"), Chess(PromoBoard, "w")}

InitOrdering ==
  InitHarnessWith(OrderingPositions, [g \in OrderingPositions |-> Answers(g)])

\* moves.sort((a, b) => moveHeuristic(game, b) - moveHeuristic(game, a))
sortCall ==
  /\ Idle
  /\ call' = [op |-> "sort", ret |-> SortByHeuristic(Moves(game), game),
              threw |-> FALSE, arg |-> Moves(game)]
  /\ UNCHANGED <<engines, game, hyperbolicRef>>
  /\ HarnessFrame

NextOrdering ==
  \/ \E g \in OrderingPositions : newChess(g)
  \/ \E i \in 1..Len(Moves(game)) : moveHeuristicCall(i)
  \/ sortCall

SpecOrdering == InitOrdering /\ [][NextOrdering]_vars

(***************************************************************************)
(* Properties                                                              *)
(***************************************************************************)
Profile == engines[aiRef]
LastEntry(h) == h[Len(h)]
Updated == call.op = "updateOpponentAssessment"

\* C1: after any sequence of updateOpponentAssessment calls on a freshly
\* constructed engine, whatever the quality scores and the times taken (0 and
\* very large ones included), opponentSkillEstimate lies within [1, 10]
SkillEstimateInRange ==
  \A e \in 1..Len(engines) :
    /\ RLe(RInt(1), engines[e].opponentSkillEstimate)
    /\ RLe(engines[e].opponentSkillEstimate, RInt(10))
    /\ \A i \in 1..Len(engines[e].history) :
         /\ RLe(RInt(1), engines[e].history[i].skillEstimate)
         /\ RLe(engines[e].history[i].skillEstimate, RInt(10))

\* two updates in a row whose unclamped target is above 10: time 0 and a
\* quality above 1/2
ClampedAtTheTop ==
  /\ Updated
  /\ call.arg.timeTaken = RInt(0)
  /\ Len(Profile.history) >= 2
  /\ RLt(Rat(1, 2), LastEntry(Profile.history).qualityScore)
  /\ RLt(RInt(9), Profile.opponentSkillEstimate)

\* C2: on a position without legal moves getMove of either engine returns
\* null, does not raise, and leaves the position and both engines as they were
NoMovesMeansNull ==
  [][(call'.op \in {"getMove", "HyperbolicGetMove"} /\ Len(Moves(game)) = 0)
       => /\ call'.ret = NullSan
          /\ ~call'.threw
          /\ game' = game
          /\ engines' = engines
          /\ hyperbolicRef' = hyperbolicRef]_vars

NullReturned ==
  /\ call.op = "getMove"
  /\ Len(Moves(game)) = 0
  /\ isCheckmate(game)
  /\ call.ret = NullSan

\* C3: on a position with a legal move, whatever the skill level, the depth
\* jitter, the subsample and the shuffles, getMove of either engine returns
\* the SAN of a move in the rules engine's legal move list of that position
LegalMoveReturned ==
  [][(call'.op \in {"getMove", "HyperbolicGetMove"} /\ Len(Moves(game)) > 0)
       => /\ ~call'.threw
          /\ InSeq(call'.ret, sanMoves(game))]_vars

MoveChosenAmongSeveral ==
  /\ call.op = "HyperbolicGetMove"
  /\ Len(Moves(game)) > 1
  /\ InSeq(call.ret, sanMoves(game))

\* C4: the history is append-only: an updateOpponentAssessment call makes it
\* one entry longer, the new last entry holds the skill estimate and the style
\* as they are after the update, the earlier entries keep their content and
\* their place; no other operation changes the history
HistoryAppendOnly ==
  [][IF call'.op = "updateOpponentAssessment"
     THEN /\ ~call'.threw
          /\ Len(engines'[aiRef].history) = Len(Profile.history) + 1
          /\ SubSeq(engines'[aiRef].history, 1, Len(Profile.history)) = Profile.history
          /\ LastEntry(engines'[aiRef].history).skillEstimate
               = engines'[aiRef].opponentSkillEstimate
          /\ LastEntry(engines'[aiRef].history).style = engines'[aiRef].opponentStyle
     ELSE engines'[aiRef].history = Profile.history]_vars

TwoDifferentEntries ==
  /\ Updated
  /\ Len(Profile.history) = 2
  /\ Profile.history[1] # Profile.history[2]
  /\ LastEntry(Profile.history).skillEstimate = Profile.opponentSkillEstimate

\* C5: the profile changes through updateOpponentAssessment only: getMove,
\* minimax, evaluateBoard, getSkillLevel and getDepthForOpponent, in any
\* interleaving, leave the skill estimate, the style, the adaptive factor and
\* the history as they were
ProfileChangesByUpdateOnly ==
  [][call'.op # "updateOpponentAssessment" => engines' = engines]_vars

SearchAfterUpdate ==
  /\ call.op = "getMove"
  /\ call.ret # NullSan
  /\ Len(Profile.history) = 1
  /\ Profile.opponentStyle # "unknown"

\* C6: no operation of the engines or of the evaluation library changes the
\* position it is given: the caller's board and side to move are after the
\* call what they were before it
PositionNotMutated ==
  [][call'.op # "none" => game' = game]_vars

ProbedAndUnchanged ==
  /\ Updated
  /\ InSeq(call.arg.san, sanMoves(game))
  /\ ~call.threw

\* C7: in both orchestrators the loop halts on a terminal result: a half-move
\* that produces a position the rules engine reports as game over sets
\* gameOver, and from then on, until resetGame, no move is applied to the
\* game and no MoveRecord is appended
HaltsOnTerminalResult ==
  [][/\ (moves' # moves /\ isGameOver(game')) => gameOver'
     /\ (gameOver /\ call'.op # "resetGame")
          => (game' = game /\ moves' = moves /\ moveHistory' = moveHistory)]_vars

\* C8: moveHistory holds one MoveRecord per half-move applied in the current
\* session, in the order applied, so it is as long as the moves list; records
\* once appended are not changed; the player field alternates white, black,
\* white, ... starting with white
MoveHistoryInStep ==
  [][/\ Len(moveHistory') = Len(moves')
     /\ \A i \in 1..Len(moveHistory') :
          /\ moveHistory'[i].san = moves'[i]
          /\ moveHistory'[i].player = (IF i % 2 = 1 THEN "white" ELSE "black")
     /\ call'.op # "resetGame"
          => /\ Len(moveHistory') \in {Len(moveHistory), Len(moveHistory) + 1}
             /\ SubSeq(moveHistory', 1, Len(moveHistory)) = moveHistory]_vars

\* C9: in HumanVsAI updateOpponentAssessment is called once per accepted
\* human move, with the position before that move, and never for a move of
\* the AI: the history of the session's engine is as long as the number of
\* white MoveRecords of the session
WhiteRecords(h) == {i \in 1..Len(h) : h[i].player = "white"}

AssessedOncePerHumanMove ==
  [][page' = "play" =>
       /\ Len(engines'[aiRef'].history) = Cardinality(WhiteRecords(moveHistory'))
       /\ (call'.op = "onDrop" /\ call'.ret = "true")
            => /\ Len(engines'[aiRef].history) = Len(Profile.history) + 1
               /\ LastEntry(engines'[aiRef].history).qualityScore
                    = analyzeMoveQuality(game, LastEntry(moves')).ret
               /\ analyzeMoveQuality(game, LastEntry(moves')).ret
                    # analyzeMoveQuality(game', LastEntry(moves')).ret
       /\ call'.op = "makeAIMove" => engines' = engines]_vars

\* a human move answered by the AI: two records, one assessment
HumanMoveAnswered ==
  /\ page = "play"
  /\ call.op = "makeAIMove"
  /\ Len(moveHistory) = 2
  /\ moveHistory[1].player = "white" /\ moveHistory[2].player = "black"
  /\ Len(Profile.history) = 1

\* C10: an illegal SAN handed to updateOpponentAssessment is minimal quality,
\* not an error: for a SAN that is not in the legal move list of the position
\* the call completes without raising and the history entry it appends has
\* qualityScore 0.1
IllegalSanIsMinimalQuality ==
  [][(call'.op = "updateOpponentAssessment"
        /\ ~InSeq(call'.arg.san, sanMoves(game)))
       => /\ ~call'.threw
          /\ Len(engines'[aiRef].history) = Len(Profile.history) + 1
          /\ LastEntry(engines'[aiRef].history).qualityScore = Rat(1, 10)
          /\ LastEntry(engines'[aiRef].history).styleScore = RInt(0)]_vars

\* a SAN of another position assessed in a position that has legal moves
IllegalSanAssessed ==
  /\ Updated
  /\ ~InSeq(call.arg.san, sanMoves(game))
  /\ Len(Moves(game)) > 0
  /\ ~call.threw
  /\ LastEntry(Profile.history).qualityScore = Rat(1, 10)

\* C11: after an updateOpponentAssessment call the style is decided by that
\* call's styleScore alone: aggressive exactly when it is above 0.6,
\* defensive exactly when it is below -0.6, balanced otherwise (0.6 and -0.6
\* themselves are balanced); once an update has happened the style is not
\* "unknown"
StyleFollowsScore ==
  [][/\ (call'.op = "updateOpponentAssessment" /\ ~call'.threw) =>
          /\ LastEntry(engines'[aiRef].history).styleScore
               = analyzeMoveStyle(game, call'.arg.san).ret
          /\ LastEntry(engines'[aiRef].history).style = engines'[aiRef].opponentStyle
          /\ engines'[aiRef].opponentStyle = "aggressive"
               <=> RLt(Rat(6, 10), LastEntry(engines'[aiRef].history).styleScore)
          /\ engines'[aiRef].opponentStyle = "defensive"
               <=> RLt(LastEntry(engines'[aiRef].history).styleScore, Rat(-6, 10))
          /\ engines'[aiRef].opponentStyle = "balanced"
               <=> /\ RLe(Rat(-6, 10), LastEntry(engines'[aiRef].history).styleScore)
                   /\ RLe(LastEntry(engines'[aiRef].history).styleScore, Rat(6, 10))
     /\ Len(engines'[aiRef].history) > 0 => engines'[aiRef].opponentStyle # "unknown"]_vars

\* a move scored exactly -0.6 and found balanced, then one scored below it and
\* found defensive
BalancedAtTheThreshold ==
  /\ Updated
  /\ Len(Profile.history) = 2
  /\ Profile.history[1].styleScore = Rat(-6, 10)
  /\ Profile.history[1].style = "balanced"
  /\ RLt(Profile.history[2].styleScore, Rat(-6, 10))
  /\ Profile.opponentStyle = "defensive"

\* C12: for every skill estimate in [1, 10] and every outcome of the two
\* jitter rolls getDepthForOpponent returns an integer >= 1 at most 1 away
\* from the table value of round(skillEstimate), the table being 1->1, 2->2,
\* 3->3, 4->4, 5->5, 6->6, 7->6, 8->7, 9->8, 10->9, non-decreasing; at 10 the
\* result is 8, 9 or 10; the table is not indexed outside 1..10
TableValues == <<1, 2, 3, 4, 5, 6, 6, 7, 8, 9>>

BaseDepthAsDocumented ==
  [][(call'.op = "getDepthForOpponent" /\ call'.arg = <<FALSE, FALSE>>) =>
       call'.ret = DocumentedDepth(Round(Profile.opponentSkillEstimate))]_vars

\* C13: at skill level 8 or more (no subsample) and with no score of 100 or
\* more in absolute value, getMove returns the best candidate of a full-width
\* search: the unpruned minimax value of the move returned, depth - 1 plies
\* below the root with evaluateBoard at the leaves, is the maximum over the
\* legal moves for white and the minimum for black, so pruning and move
\* ordering do not change the value chosen; of equally scored candidates the
\* first in the order after the sort is returned
RECURSIVE FullWidth(_, _, _, _)
RECURSIVE FullWidthBest(_, _, _, _, _, _)
FullWidthBest(self, g, ms, i, depth, maximizing) ==
  IF i > Len(ms) THEN (IF maximizing THEN -Infinity ELSE Infinity)
  ELSE IF maximizing
  THEN IMax(FullWidth(self, move(g, ms[i].san), depth - 1, FALSE),
            FullWidthBest(self, g, ms, i + 1, depth, maximizing))
  ELSE IMin(FullWidth(self, move(g, ms[i].san), depth - 1, TRUE),
            FullWidthBest(self, g, ms, i + 1, depth, maximizing))

FullWidth(self, g, depth, maximizing) ==
  IF depth = 0 \/ isGameOver(g) THEN evaluateBoard(self, g)
  ELSE FullWidthBest(self, g, Moves(g), 1, depth, maximizing)

\* the full-width values of the candidates cands of position g
FullWidthValues(self, g, cands, depth) ==
  [i \in 1..Len(cands) |->
     FullWidth(self, move(g, cands[i].san), depth - 1, g.turn = "b")]

\* the first candidate whose value is the best for the side to move
FirstBest(g, cands, vals) ==
  CHOOSE k \in 1..Len(cands) :
    /\ \A i \in 1..Len(cands) :
         IF g.turn = "w" THEN vals[i] <= vals[k] ELSE vals[i] >= vals[k]
    /\ \A i \in 1..(k - 1) : vals[i] # vals[k]

BestOfFullWidth(self, g, rnd, ret, cands, vals) ==
  /\ Len(cands) = Len(Moves(g))
  /\ \A i \in 1..Len(vals) : vals[i] > -10000 /\ vals[i] < 10000
  /\ ret = cands[FirstBest(g, cands, vals)].san

SearchFindsTheBest ==
  [][(/\ call'.op = "getMove"
      /\ RLe(RInt(8), getSkillLevel(Profile, call'.arg.adjustment))
      /\ Len(Moves(game)) > 0)
       => BestOfFullWidth(Profile, game, call'.arg, call'.ret,
            Candidates(game, getSkillLevel(Profile, call'.arg.adjustment),
                       call'.arg.perm),
            FullWidthValues(Profile, game,
              Candidates(game, getSkillLevel(Profile, call'.arg.adjustment),
                         call'.arg.perm),
              SearchDepth(Profile, game, call'.arg)))]_vars

\* a search at skill level 8 or more, five plies deep or more, among three
\* moves or more, that does not return the first candidate
DeepSearchChose ==
  /\ call.op = "getMove"
  /\ RLe(RInt(8), getSkillLevel(Profile, call.arg.adjustment))
  /\ Len(Moves(game)) > 2
  /\ SearchDepth(Profile, game, call.arg) >= 5
  /\ call.ret # Candidates(game, getSkillLevel(Profile, call.arg.adjustment),
                            call.arg.perm)[1].san

\* C14: for every position assessPieceDevelopment returns a value within
\* [0, 1], positions where the side to move has fewer than 8 pawns included
DevelopmentInUnitRange ==
  [][call'.op = "assessPieceDevelopment" =>
       /\ RLe(RInt(0), call'.ret)
       /\ RLe(call'.ret, RInt(1))]_vars

\* C15: calculateUndefendedPenalty adds 0.05 x piece value for each piece of
\* the side to move standing on a square the opponent can legally capture
\* into, capped at 0.3; the result is strictly positive whenever a piece of
\* non-zero value of the side to move can be captured by the opponent
Capturable(g) ==
  {s \in Squares :
     /\ g.board[s].color = g.turn
     /\ \E i \in 1..Len(MovesAcc(Chess(g.board, Other(g.turn)), 1)) :
          /\ MovesAcc(Chess(g.board, Other(g.turn)), 1)[i].to = s
          /\ MovesAcc(Chess(g.board, Other(g.turn)), 1)[i].captured # "-"}

PenaltyCountsCapturablePieces ==
  [][call'.op = "calculateUndefendedPenalty" =>
       /\ call'.ret =
            RMin(Rat(3, 10),
                 Rat(SumSeq([i \in 1..Len(SqList) |->
                               IF SqList[i] \in Capturable(game)
                               THEN 5 * PIECE_VALUES(game.board[SqList[i]].type)
                               ELSE 0], 1), 100))
       /\ (\E s \in Capturable(game) : PIECE_VALUES(game.board[s].type) > 0)
            => RLt(RInt(0), call'.ret)]_vars

\* C16: on a position with exactly one legal move getMove of the Hyperbolic
\* engine returns that move, whatever temperature, riskFactor and the noise
OnlyMoveReturned ==
  [][(call'.op = "HyperbolicGetMove" /\ Len(Moves(game)) = 1)
       => /\ ~call'.threw
          /\ call'.ret = Moves(game)[1].san]_vars

\* the only move returned by an engine whose two fields were changed
OnlyMoveWithOtherFields ==
  /\ call.op = "HyperbolicGetMove"
  /\ Len(Moves(game)) = 1
  /\ hyperbolicRef.temperature = RInt(3)
  /\ hyperbolicRef.riskFactor = RInt(0)
  /\ call.arg = 0
  /\ call.ret = Moves(game)[1].san

\* C17: with opponentStyle "unknown" evaluateBoard is deterministic and
\* antisymmetric under colour swap: for a position and its counterpart with
\* every piece's colour and the side to move flipped the scores are negated,
\* and the same position evaluated again gives the same score
Mirror(g) ==
  Chess([s \in Squares |->
           IF g.board[s] = NoPiece THEN NoPiece
           ELSE Pc(Other(g.board[s].color), g.board[s].type)],
        Other(g.turn))

EvaluationAntisymmetric ==
  [][(call'.op = "evaluateBoard" /\ Profile.opponentStyle = "unknown") =>
       /\ evaluateBoard(Profile, Mirror(game)) = -call'.ret
       /\ evaluateBoard(Profile, Mirror(Mirror(game))) = call'.ret
       /\ Mirror(Mirror(game)) = game]_vars

\* a position of unequal material evaluated by a fresh engine
UnequalMaterialEvaluated ==
  /\ call.op = "evaluateBoard"
  /\ Profile.opponentStyle = "unknown"
  /\ call.ret > 0
  /\ Mirror(game) # game

\* C18: in a list of moves sorted by descending moveHeuristic, every
\* promotion, capturing or not, stands above every plain capture scoring 15
\* or less, and every checking move that neither captures nor promotes
\* stands above every quiet move.
PlainCapture(m) == m.captured # "-" /\ m.promotion = "-"

PlainCheck(m) == m.captured = "-" /\ m.promotion = "-" /\ m.san.suffix = "+"

Quiet(m) == m.captured = "-" /\ m.promotion = "-" /\ m.san.suffix # "+"

PromotionsAboveCaptures ==
  [][call'.op = "sort" =>
       \A i, j \in 1..Len(call'.ret) :
         LET a == call'.ret[i]
             b == call'.ret[j]
         IN /\ (/\ a.promotion # "-"
                 /\ PlainCapture(b)
                 /\ 10 + PIECE_VALUES(b.captured) <= 15) => i < j
            /\ (PlainCheck(a) /\ Quiet(b)) => i < j]_vars

\* C20: every getMove call of the adaptive engine runs to completion.
\* getDepthForOpponent returns an integer from 1 to 10; the piece-count
\* reduction (2 less above 20 pieces, 1 less above 10, never below 1) leaves
\* it there, so the root hands minimax a depth from 0 to 9; minimax stops at
\* depth 0 and at a finished game with the evaluation of the position, and
\* otherwise searches exactly depth plies, one less at every call; getMove
\* returns without throwing.
Reduced(depth, pieceCount) ==
  IF pieceCount > 20 THEN depth - 2
  ELSE IF pieceCount > 10 THEN depth - 1
  ELSE depth

SearchRunsToCompletion ==
  [][/\ call'.op = "getDepthForOpponent" => call'.ret \in 1..10
     /\ call'.op = "reduceDepth" =>
          /\ call'.ret - 1 \in 0..9
          /\ call'.ret = IMax(1, Reduced(call'.arg[1], call'.arg[2]))
     /\ call'.op = "minimax" =>
          /\ (call'.arg[1] = 0 \/ isGameOver(game)) =>
               call'.ret = evaluateBoard(Profile, game) /\ game' = game
          /\ call'.ret = FullWidth(Profile, game, call'.arg[1], call'.arg[2])
     /\ call'.op = "getMove" =>
          /\ ~call'.threw
          /\ SearchDepth(Profile, game, call'.arg) - 1 \in 0..9
          /\ engines' = engines]_vars

\* the floor at work: depth 1 on a board of more than 20 pieces stays 1
ReductionFloored ==
  /\ call.op = "reduceDepth"
  /\ call.arg = <<1, 21>>
  /\ call.ret = 1

\* C21: in HumanVsAI a drop that returns false (the AI is thinking, the game
\* is over, it is not white's turn, or the rules engine rejects the move)
\* leaves game, moves, moveHistory, thinking, gameOver and the engine's
\* profile as they were and schedules no AI reply.
RejectedDropChangesNothing ==
  [][(call'.op = "onDrop" /\ call'.ret = "false") =>
       /\ game' = game
       /\ moves' = moves
       /\ moveHistory' = moveHistory
       /\ thinking' = thinking
       /\ gameOver' = gameOver
       /\ engines'[aiRef'] = engines[aiRef]
       /\ timers' = timers
       /\ nextTimer' = nextTimer]_vars

\* a drop rejected while the AI is thinking, its reply still pending
DropRejectedWhileThinking ==
  /\ call.op = "onDrop"
  /\ call.ret = "false"
  /\ thinking
  /\ timers # {}
  /\ moveHistory # <<>>

\* C22: in HumanVsAI resetGame starts a fresh session whatever the timer
\* does: after it the game is the starting position, moves and moveHistory
\* are empty and the engine's profile is new, and this stays so until the
\* next accepted human move, also when an AI reply scheduled by makeAIMove
\* was pending at the reset.
FreshSession ==
  /\ game = StartChess
  /\ moves = <<>>
  /\ moveHistory = <<>>
  /\ engines[aiRef] = NewAdaptiveChessAI

ResetStartsFreshSession ==
  [][page = "play" =>
       /\ call'.op = "resetGame" => FreshSession'
       /\ (/\ resets > 0
           /\ FreshSession
           /\ ~(call'.op = "onDrop" /\ call'.ret = "true")) => FreshSession']_vars

\* C23: in AIvsAI, however Play, Pause and Reset clicks and timer firings
\* interleave, at most one playNextMove callback is pending, and after Pause
\* or Reset none is.
PendingCallbacks == {t \in timers : t.fn = "playNextMove"}

SingleChainOfMoves ==
  page = "watch" =>
    /\ Cardinality(PendingCallbacks) <= 1
    /\ call.op \in {"pausePlaying", "resetGame"} => PendingCallbacks = {}

\* C24: in AIvsAI the adaptive engine's profile is never updated: through
\* the whole session, whoever moves, opponentSkillEstimate is 5,
\* opponentStyle is "unknown" and history is empty, and every MoveRecord
\* carries adaptiveSkill 5.
AdaptiveProfileUntouched ==
  page = "watch" =>
    /\ engines[aiRef].opponentSkillEstimate = RInt(5)
    /\ engines[aiRef].opponentStyle = "unknown"
    /\ engines[aiRef].history = <<>>
    /\ \A i \in 1..Len(moveHistory) : moveHistory[i].adaptiveSkill = RInt(5)

\* both engines have moved
BothEnginesMoved ==
  /\ page = "watch"
  /\ Len(moveHistory) = 2
  /\ moveHistory[1].player = "white"
  /\ moveHistory[2].player = "black"

\* C25: in HumanVsAI every accepted human move that does not end the game
\* is answered, timers firing and no reset coming in between: thinking is
\* true from the move to its answer, so no human move is accepted meanwhile;
\* the next move applied is one black move chosen by getMove for the
\* position displayed, recorded as such, after which thinking is false and
\* white is to move; after that black move the next move applied is a
\* human's; and, if again and again no callback of makeAIMove is left
\* pending, the answer does come.
NoCallbackPending == \A t \in timers : t.fn # "makeAIMove"

AnswerPending ==
  /\ page = "play"
  /\ moveHistory # <<>>
  /\ moveHistory[Len(moveHistory)].player = "white"
  /\ ~gameOver

AnswerApplied ==
  /\ call'.op = "makeAIMove"
  /\ moveHistory' # <<>>
  /\ SubSeq(moveHistory', 1, Len(moveHistory') - 1) = moveHistory
  /\ moveHistory'[Len(moveHistory')].player = "black"
  /\ moveLegal(game, moveHistory'[Len(moveHistory')].san)
  /\ game' = NewChess(fen(move(game, moveHistory'[Len(moveHistory')].san)))
  /\ ~thinking'
  /\ game'.turn = "w"

HumanMoveAnsweredOnce ==
  /\ [](AnswerPending => thinking)
  /\ [][(AnswerPending /\ moves' # moves /\ call'.op # "resetGame")
          => AnswerApplied]_vars
  /\ [][(/\ page = "play"
          /\ moveHistory # <<>>
          /\ moveHistory[Len(moveHistory)].player = "black"
          /\ moves' # moves
          /\ call'.op # "resetGame") => call'.op = "onDrop"]_vars
  /\ ([]<>NoCallbackPending) => (AnswerPending ~> ~AnswerPending)
====
